---------------------------- MODULE Spec2Model ----------------------------
(***************************************************************************)
(* A model of mitmproxy's certificate store (mitmproxy/certs.py):          *)
(* dummy_cert (the leaf builder), CertStore.get_cert, CertStore.add_cert,  *)
(* CertStore.add_cert_file and CertStore.expire.                           *)
(*                                                                         *)
(* Representation.                                                         *)
(*   A Python str is the sequence of its "."-separated labels, that is,    *)
(*   the value of s.split("."): "www.example.com" is                       *)
(*   <<"www", "example", "com">>, "*" is <<"*">> and "" is <<"">>.         *)
(*   split/join are inverse to each other, so nothing is lost.             *)
(*   An Optional value is a sequence of length 0 (None) or 1.              *)
(*   A certificate's fingerprint stands for its DER bytes: two             *)
(*   certificates are equal iff their fingerprints are (Cert.__eq__).      *)
(*   A fresh leaf gets a fingerprint never used before (its serial number  *)
(*   is random and its validity starts at the time of the call).           *)
(***************************************************************************)
EXTENDS Integers, Sequences, FiniteSets, TLC

VARIABLES
    certs,                \* CertStore.certs: dict[TCertId, CertStoreEntry]
    expire_queue,         \* CertStore.expire_queue: list[CertStoreEntry]
    default_chain_file,   \* CertStore.default_chain_file
    default_chain_certs,  \* CertStore.default_chain_certs
    issued,               \* number of leaves dummy_cert has signed so far
    last,                 \* the last call made on the store and what it gave
    missLog,              \* history: the get_cert calls that synthesized a leaf
    calls,                \* history: the calls other than get_cert made so far
    nextHost,             \* the client's position in its list of hosts
    umask,                \* the process's file mode creation mask
    ctx,                  \* CertStore.from_store / create_store in progress
    files,                \* the files of the store's directory
    handlers,             \* the get_cert call each request handler is in
    log                   \* history: the get_cert calls the handlers began

vars == <<certs, expire_queue, default_chain_file, default_chain_certs,
          issued, last, missLog, calls, nextHost, umask, ctx, files,
          handlers, log>>

\* The store's variables and those of the process around it.
storeVars == <<certs, expire_queue, default_chain_file, default_chain_certs,
               issued, last, missLog, calls, nextHost>>
concVars == <<handlers, log>>
procVars == <<umask, ctx, files, concVars>>

---------------------------------------------------------------------------
(* Bounds of the exploration.                                              *)

\* Leaves synthesized in one run of the small-universe specification.
MaxIssued == 1
\* add_cert / add_cert_file / direct expire calls in one run.
MaxCustomOps == 1
\* Leaves synthesized beyond STORE_CAP in the capacity specification.
MaxExtra == 3

---------------------------------------------------------------------------
(* Program constants.                                                      *)

\* CertStore.STORE_CAP
STORE_CAP == 100
\* dummy_cert: len(commonname) < 64
CN_LIMIT == 64

---------------------------------------------------------------------------
(* Python values.                                                          *)

None == <<>>
Some(x) == <<x>>

\* bool(s) for a str: the empty string is falsy.
StrTruthy(s) == s /= <<"">>

\* bool(o) for an Optional[str].
OptStrTruthy(o) == o /= None /\ StrTruthy(o[1])

RECURSIVE SumLen(_)
SumLen(labels) ==
    IF labels = <<>> THEN 0 ELSE Len(Head(labels)) + SumLen(Tail(labels))

\* len(s) for a str: the labels plus the dots between them.
StrLen(s) == SumLen(s) + Len(s) - 1

RECURSIVE Rep(_)
Rep(n) == IF n = 0 THEN "" ELSE "a" \o Rep(n - 1)

\* x509.DNSName / x509.IPAddress
DNS(s) == [t |-> "DNS", v |-> s]
IP(s) == [t |-> "IP", v |-> s]

\* TCustomCertId and TGeneratedCertId, the two kinds of key of certs.
StrKey(s) == [tag |-> "str", s |-> s, cn |-> None, sans |-> <<>>]
TupKey(cn, sans) == [tag |-> "tup", s |-> <<>>, cn |-> cn, sans |-> sans]

\* bool(key): a str key is falsy when empty, a (cn, sans) tuple never is.
KeyTruthy(k) == IF k.tag = "str" THEN StrTruthy(k.s) ELSE TRUE

---------------------------------------------------------------------------
(* Cert                                                                    *)

GenFp(n) == [src |-> "gen", n |-> n]
PemFp(n) == [src |-> "pem", n |-> n]

\* Cert.__eq__
CertEq(a, b) == a.fp = b.fp

\* Cert.cn: the first CN attribute of the subject, or None.
CertCn(c) ==
    LET idx == {i \in 1..Len(c.subject) : c.subject[i].oid = "CN"}
    IN IF idx = {} THEN None
       ELSE Some(c.subject[CHOOSE i \in idx : \A j \in idx : i <= j].v)

\* Cert.altnames
CertAltnames(c) == c.sans

\* CertStoreEntry.__eq__ (dataclass: field by field).
SeqCertEq(a, b) ==
    Len(a) = Len(b) /\ \A i \in 1..Len(a) : CertEq(a[i], b[i])

EntryEq(v, d) ==
    /\ CertEq(v.cert, d.cert)
    /\ v.privatekey = d.privatekey
    /\ v.chain_file = d.chain_file
    /\ SeqCertEq(v.chain_certs, d.chain_certs)

---------------------------------------------------------------------------
(* _fix_legacy_sans                                                        *)

\* A SAN argument is either typed general names or the legacy list of str.
GeneralNames(items) == [legacy |-> FALSE, items |-> items]
LegacyList(items) == [legacy |-> TRUE, items |-> items]

\* ipaddress.ip_address(x) succeeds.
IsIpLiteral(x) == x \in {<<"::1">>, <<"10", "0", "0", "1">>}

\* One label through the "idna" codec: an ASCII label is kept, U+00FC
\* (written ~u here) is punycoded.
IdnaLabel(l) == IF l = "b~ucher" THEN "xn--bcher-kva" ELSE l

\* x.encode("idna").decode()
Idna(x) == [i \in 1..Len(x) |-> IdnaLabel(x[i])]

FixLegacySans(sans) ==
    IF sans.legacy /\ Len(sans.items) > 0
    THEN [i \in 1..Len(sans.items) |->
            IF IsIpLiteral(sans.items[i])
            THEN IP(sans.items[i])
            ELSE DNS(Idna(sans.items[i]))]
    ELSE sans.items

---------------------------------------------------------------------------
(* dummy_cert                                                              *)

\* is_valid_commonname = commonname is not None and len(commonname) < 64
IsValidCommonname(commonname) ==
    commonname /= None /\ StrLen(commonname[1]) < CN_LIMIT

\* subject: the CN if valid, then the organization if given.
LeafSubject(commonname, organization) ==
    (IF IsValidCommonname(commonname)
     THEN <<[oid |-> "CN", v |-> commonname[1]]>> ELSE <<>>)
    \o (IF organization /= None
        THEN <<[oid |-> "O", v |-> organization[1]]>> ELSE <<>>)

\* critical = not is_valid_commonname
SanCritical(commonname, organization) == ~IsValidCommonname(commonname)

\* dummy_cert with the SAN extension built from the common name alone.
DummyCertSanFromCn(cacert, commonname, sans, organization, n) ==
    [fp           |-> GenFp(n),
     subject      |-> LeafSubject(commonname, organization),
     sans         |-> IF IsValidCommonname(commonname)
                      THEN <<DNS(commonname[1])>> ELSE <<>>,
     san_critical |-> SanCritical(commonname, organization),
     pubkey       |-> cacert.pubkey,
     is_ca        |-> FALSE]

\* The leaf: the CA's public key, a fresh serial (n), the subject and the
\* SubjectAlternativeName extension.
DummyCert(cacert, commonname, sans, organization, n) ==
    [fp           |-> GenFp(n),
     subject      |-> LeafSubject(commonname, organization),
     sans         |-> FixLegacySans(GeneralNames(sans)),
     san_critical |-> SanCritical(commonname, organization),
     pubkey       |-> cacert.pubkey,
     is_ca        |-> FALSE]

---------------------------------------------------------------------------
(* CertStore                                                               *)

\* dict item assignment: c[k] = v
Put(c, k, v) == [x \in (DOMAIN c) \cup {k} |-> IF x = k THEN v ELSE c[x]]

\* expire with the bound off by one.
ExpireOffByOne(c, q, entry) ==
    LET q1 == Append(q, entry) IN
    IF Len(q1) > STORE_CAP + 1
    THEN LET d == Head(q1) IN
         [expire_queue |-> Tail(q1),
          certs |-> [k \in {x \in DOMAIN c : ~EntryEq(c[x], d)} |-> c[k]]]
    ELSE [expire_queue |-> q1, certs |-> c]

\* expire with pop() for pop(0): the newest entry goes.
ExpirePopLast(c, q, entry) ==
    LET q1 == Append(q, entry) IN
    IF Len(q1) > STORE_CAP
    THEN LET d == q1[Len(q1)] IN
         [expire_queue |-> SubSeq(q1, 1, Len(q1) - 1),
          certs |-> [k \in {x \in DOMAIN c : ~EntryEq(c[x], d)} |-> c[k]]]
    ELSE [expire_queue |-> q1, certs |-> c]

\* expire that drops the evicted entry's (cn, sans) key only.
ExpireTupleKeyOnly(c, q, entry) ==
    LET q1 == Append(q, entry) IN
    IF Len(q1) > STORE_CAP
    THEN LET d == Head(q1) IN
         [expire_queue |-> Tail(q1),
          certs |-> [k \in {x \in DOMAIN c :
                                ~(x.tag = "tup" /\ EntryEq(c[x], d))} |-> c[k]]]
    ELSE [expire_queue |-> q1, certs |-> c]

\* CertStore.expire
Expire(c, q, entry) ==
    LET q1 == Append(q, entry) IN
    IF Len(q1) > STORE_CAP
    THEN LET d == Head(q1) IN
         [expire_queue |-> Tail(q1),
          certs |-> [k \in {x \in DOMAIN c : ~EntryEq(c[x], d)} |-> c[k]]]
    ELSE [expire_queue |-> q1, certs |-> c]

\* The keys CertStore.add_cert assigns: the cert's CN if truthy, the string
\* form of each SAN, each name given.
AddCertKeys(entry, names) ==
    (IF OptStrTruthy(CertCn(entry.cert))
     THEN {StrKey(CertCn(entry.cert)[1])} ELSE {})
    \cup {StrKey(CertAltnames(entry.cert)[i].v) :
            i \in 1..Len(CertAltnames(entry.cert))}
    \cup {StrKey(names[i]) : i \in 1..Len(names)}

\* CertStore.add_cert: every assignment stores the same entry.
AddCert(c, entry, names) ==
    [k \in (DOMAIN c) \cup AddCertKeys(entry, names) |->
        IF k \in AddCertKeys(entry, names) THEN entry ELSE c[k]]

\* CertStore.asterisk_forms on a str: dn, then "*." + each proper suffix.
AsteriskFormsStr(dn) ==
    <<dn>> \o [i \in 1..(Len(dn) - 1) |-> <<"*">> \o SubSeq(dn, i + 1, Len(dn))]

\* CertStore.asterisk_forms on a general name.
AsteriskForms(gn) ==
    IF gn.t = "DNS" THEN AsteriskFormsStr(gn.v) ELSE <<gn.v>>

RECURSIVE SanForms(_)
SanForms(sans) ==
    IF sans = <<>> THEN <<>>
    ELSE AsteriskForms(Head(sans)) \o SanForms(Tail(sans))

StrKeys(strs) == [i \in 1..Len(strs) |-> StrKey(strs[i])]

\* get_cert's potential_keys; sans is already normalized.
PotentialKeys(commonname, sans) ==
    (IF OptStrTruthy(commonname)
     THEN StrKeys(AsteriskFormsStr(commonname[1])) ELSE <<>>)
    \o StrKeys(SanForms(sans))
    \o <<StrKey(<<"*">>)>>
    \o <<TupKey(commonname, sans)>>

\* next(filter(lambda key: key in self.certs, potential_keys), None)
FirstPresent(keys, c) ==
    LET idx == {i \in 1..Len(keys) : keys[i] \in DOMAIN c}
    IN IF idx = {} THEN None
       ELSE Some(keys[CHOOSE i \in idx : \A j \in idx : i <= j])

\* "if name:" in get_cert.
NameFound(name) == name /= None /\ KeyTruthy(name[1])

\* An entry whose chain starts with its own leaf.
NewEntryLeafInChain(commonname, sans, organization, ca, chain_file, chain_certs, n) ==
    [cert        |-> DummyCert(ca, commonname, sans, organization, n),
     privatekey  |-> ca.pubkey,
     chain_file  |-> chain_file,
     chain_certs |-> <<DummyCert(ca, commonname, sans, organization, n)>>
                     \o chain_certs]

\* The entry get_cert synthesizes on a miss.
NewEntry(commonname, sans, organization, ca, chain_file, chain_certs, n) ==
    [cert        |-> DummyCert(ca, commonname, sans, organization, n),
     privatekey  |-> ca.pubkey,
     chain_file  |-> chain_file,
     chain_certs |-> chain_certs]

---------------------------------------------------------------------------
(* The certificates, keys and files of the exploration.                    *)

\* A private key is named by its public key: k.public_key() is k.
CaCert ==
    [fp |-> PemFp(0),
     subject |-> <<[oid |-> "CN", v |-> <<"mitmproxy">>],
                   [oid |-> "O", v |-> <<"mitmproxy">>]>>,
     sans |-> <<>>, san_critical |-> FALSE, pubkey |-> "ca_key", is_ca |-> TRUE]

RootCert ==
    [fp |-> PemFp(1),
     subject |-> <<[oid |-> "CN", v |-> <<"root">>]>>,
     sans |-> <<>>, san_critical |-> FALSE, pubkey |-> "root_key", is_ca |-> TRUE]

\* An operator's wildcard certificate.
WildCert ==
    [fp |-> PemFp(2),
     subject |-> <<[oid |-> "CN", v |-> <<"*", "example", "com">>]>>,
     sans |-> <<DNS(<<"*", "example", "com">>)>>, san_critical |-> FALSE,
     pubkey |-> "site_key", is_ca |-> FALSE]

\* A certificate without CN whose only SAN is the empty DNS name.
BlankCert ==
    [fp |-> PemFp(3),
     subject |-> <<>>,
     sans |-> <<DNS(<<"">>)>>, san_critical |-> TRUE,
     pubkey |-> "site_key", is_ca |-> FALSE]

\* A certificate for the CA's own key pair, and a CA certificate.
SameKeyCert ==
    [fp |-> PemFp(4),
     subject |-> <<[oid |-> "CN", v |-> <<"www", "example", "com">>]>>,
     sans |-> <<>>, san_critical |-> FALSE, pubkey |-> "ca_key", is_ca |-> FALSE]

\* The CA file from_files reads: the CA alone, or followed by its issuer.
CaFiles == {<<CaCert>>, <<CaCert, RootCert>>}

\* CertStore.from_files / __init__: the chain served with generated leaves.
FromFiles(ca_file_certs) ==
    [default_ca |-> ca_file_certs[1],
     default_chain_file |->
        IF Len(ca_file_certs) > 1 THEN Some("ca.pem") ELSE None,
     default_chain_certs |->
        IF Len(ca_file_certs) > 1 THEN ca_file_certs ELSE <<ca_file_certs[1]>>]

default_ca == CaCert
default_privatekey == "ca_key"

\* A PEM file given to add_cert_file: its first certificate, its private
\* key block (None if absent; key_password is the password it is encrypted
\* with), the certificates after the first, and whether all of them parse.
PemFile(path, leaf, key, key_password, rest, chain_parses) ==
    [path |-> path, leaf |-> leaf, key |-> key, key_password |-> key_password,
     rest |-> rest, chain_parses |-> chain_parses]

PemFiles ==
    { PemFile("good.pem", WildCert, Some("site_key"), None, <<RootCert>>, TRUE),
      PemFile("mismatch.pem", WildCert, Some("other_key"), None, <<>>, TRUE),
      PemFile("nokey.pem", WildCert, None, None, <<>>, TRUE),
      PemFile("cakey.pem", SameKeyCert, None, None, <<>>, TRUE),
      PemFile("badchain.pem", BlankCert, Some("site_key"), None, <<RootCert>>, FALSE),
      PemFile("locked.pem", WildCert, Some("site_key"), Some("secret"), <<>>, TRUE) }

Passphrases == {None, Some("secret")}

---------------------------------------------------------------------------
(* load_pem_private_key and CertStore.add_cert_file                        *)

\* load_pem_private_key(raw, password): the key, a ValueError (no key block,
\* or a wrong password), or a TypeError (the key is encrypted and no
\* password was given). A password given for an unencrypted key is dropped.
LoadPemPrivateKey(file, password) ==
    IF file.key = None THEN [res |-> "ValueError", key |-> None]
    ELSE IF file.key_password = None THEN [res |-> "ok", key |-> file.key]
    ELSE IF password = None THEN [res |-> "TypeError", key |-> None]
    ELSE IF password = file.key_password THEN [res |-> "ok", key |-> file.key]
    ELSE [res |-> "ValueError", key |-> None]

\* x509.load_pem_x509_certificates(raw), or the fallback [cert].
FileChain(file) ==
    IF file.chain_parses THEN <<file.leaf>> \o file.rest ELSE <<file.leaf>>

\* add_cert_file that registers the entry before it compares the keys.
AddCertFileRegisterFirst(c, spec, file, passphrase) ==
    LET loaded == LoadPemPrivateKey(file, passphrase)
        cert == file.leaf
        private_key ==
            IF loaded.res = "ok" THEN loaded.key[1] ELSE default_privatekey
        entry == [cert |-> cert, privatekey |-> private_key,
                  chain_file |-> Some(file.path),
                  chain_certs |-> FileChain(file)]
    IN IF loaded.res = "TypeError"
       THEN [certs |-> c, err |-> "TypeError", entry |-> None]
       ELSE IF cert.pubkey /= private_key
       THEN [certs |-> AddCert(c, entry, <<spec>>), err |-> "KeyMismatch",
             entry |-> None]
       ELSE [certs |-> AddCert(c, entry, <<spec>>), err |-> "",
             entry |-> Some(entry)]

\* CertStore.add_cert_file, as a function of the store's certs: the new
\* certs and the error raised ("" if none).
AddCertFile(c, spec, file, passphrase) ==
    LET loaded == LoadPemPrivateKey(file, passphrase)
        cert == file.leaf
        private_key ==
            IF loaded.res = "ok" THEN loaded.key[1] ELSE default_privatekey
        entry == [cert |-> cert, privatekey |-> private_key,
                  chain_file |-> Some(file.path),
                  chain_certs |-> FileChain(file)]
    IN IF loaded.res = "TypeError"
       THEN [certs |-> c, err |-> "TypeError", entry |-> None]
       ELSE IF cert.pubkey /= private_key
       THEN [certs |-> c, err |-> "KeyMismatch", entry |-> None]
       ELSE [certs |-> AddCert(c, entry, <<spec>>), err |-> "",
             entry |-> Some(entry)]

---------------------------------------------------------------------------
(* The calls on a store.                                                   *)

\* What the last call was, what it was given and what it gave.
Last(op, cn, sans, org, names, name, entry, synthesized, err) ==
    [op |-> op, cn |-> cn, sans |-> sans, org |-> org, names |-> names,
     name |-> name, entry |-> entry, synthesized |-> synthesized, err |-> err]

\* An entry of the history of calls.
Call(op, err) == [op |-> op, err |-> err]

\* CertStore.get_cert as a function of the store: what it returns and the
\* store it leaves. n is the serial of the leaf it signs on a miss.
GetCertResult(c, q, chain_file, chain_certs, commonname, sans_in, organization, n) ==
    LET sans == FixLegacySans(sans_in)
        name == FirstPresent(PotentialKeys(commonname, sans), c)
        entry == NewEntry(commonname, sans, organization, default_ca,
                          chain_file, chain_certs, n)
        after == Expire(Put(c, TupKey(commonname, sans), entry), q, entry)
    IN IF NameFound(name)
       THEN [entry |-> c[name[1]], synthesized |-> FALSE, name |-> name,
             sans |-> sans, certs |-> c, expire_queue |-> q]
       ELSE [entry |-> entry, synthesized |-> TRUE, name |-> name,
             sans |-> sans, certs |-> after.certs,
             expire_queue |-> after.expire_queue]

\* store.get_cert(commonname, sans, organization)
GetCert(commonname, sans_in, organization) ==
    LET r == GetCertResult(certs, expire_queue, default_chain_file,
                           default_chain_certs, commonname, sans_in,
                           organization, issued)
    IN /\ certs' = r.certs
       /\ expire_queue' = r.expire_queue
       /\ issued' = IF r.synthesized THEN issued + 1 ELSE issued
       /\ missLog' = IF r.synthesized
                     THEN Append(missLog, [key |-> TupKey(commonname, r.sans),
                                           fp |-> r.entry.cert.fp])
                     ELSE missLog
       /\ last' = Last("get_cert", commonname, r.sans, organization, <<>>, r.name,
                       Some(r.entry), r.synthesized, "")
       /\ UNCHANGED <<default_chain_file, default_chain_certs, calls>>
       /\ UNCHANGED procVars

\* store.add_cert(entry, *names)
AddCertCall(entry, names) ==
    /\ certs' = AddCert(certs, entry, names)
    /\ last' = Last("add_cert", None, <<>>, None, names, None, Some(entry),
                       FALSE, "")
    /\ calls' = Append(calls, Call("add_cert", ""))
    /\ UNCHANGED <<expire_queue, default_chain_file, default_chain_certs,
                   issued, missLog>>
    /\ UNCHANGED procVars

\* store.add_cert_file(spec, path, passphrase)
AddCertFileCall(spec, file, passphrase) ==
    LET r == AddCertFile(certs, spec, file, passphrase)
    IN /\ certs' = r.certs
       /\ last' = Last("add_cert_file", None, <<>>, None, <<spec>>, None, r.entry,
                       FALSE, r.err)
       /\ calls' = Append(calls, Call("add_cert_file", r.err))
       /\ UNCHANGED <<expire_queue, default_chain_file, default_chain_certs,
                      issued, missLog>>
       /\ UNCHANGED procVars

\* store.expire(entry)
ExpireCall(entry) ==
    LET r == Expire(certs, expire_queue, entry)
    IN /\ certs' = r.certs
       /\ expire_queue' = r.expire_queue
       /\ last' = Last("expire", None, <<>>, None, <<>>, None, Some(entry), FALSE, "")
       /\ calls' = Append(calls, Call("expire", ""))
       /\ UNCHANGED <<default_chain_file, default_chain_certs, issued, missLog>>
       /\ UNCHANGED procVars

\* get_cert would return a stored entry.
WouldHit(commonname, sans_in) ==
    NameFound(FirstPresent(
        PotentialKeys(commonname, FixLegacySans(sans_in)), certs))

\* The request handlers that share a store.
Handlers == {1, 2}

\* A handler that is in no get_cert call: the call it is in (req), the
\* locals name, entry and d, and what its last call returned or raised.
HandlerIdle ==
    [pc |-> "idle", req |-> None, name |-> None, entry |-> None, d |-> None,
     ret |-> None, err |-> ""]

\* No from_store call in progress; rounds counts the calls made so far.
CtxIdle(rounds) ==
    [pc |-> "idle", original_umask |-> None, was |-> None, exc |-> "",
     exit |-> "", rounds |-> rounds]

\* The process before its first from_store call, with umask u and an empty
\* store directory.
ProcInit(u) ==
    /\ umask = u
    /\ ctx = CtxIdle(0)
    /\ files = <<>>
    /\ handlers = [h \in Handlers |-> HandlerIdle]
    /\ log = <<>>

\* CertStore(...) after from_files: nothing stored, nothing queued.
StoreInit ==
    /\ certs = <<>>
    /\ expire_queue = <<>>
    /\ \E f \in CaFiles :
          /\ default_chain_file = FromFiles(f).default_chain_file
          /\ default_chain_certs = FromFiles(f).default_chain_certs
    /\ issued = 0
    /\ last = Last("init", None, <<>>, None, <<>>, None, None, FALSE, "")
    /\ missLog = <<>>
    /\ calls = <<>>
    /\ nextHost = 0

\* A store in a process with the usual umask 0o022.
Init == StoreInit /\ ProcInit(18)

---------------------------------------------------------------------------
(* The small universe: every kind of request, few of each.                 *)

Www == <<"www", "example", "com">>
\* Common names of 63 and of 64 characters.
Long63 == <<Rep(CN_LIMIT - 6), "test">>
Long64 == <<Rep(CN_LIMIT - 5), "test">>

Request(cn, sans, org) == [cn |-> cn, sans |-> sans, org |-> org]

Requests ==
    {Request(Some(Www), GeneralNames(<<DNS(Www)>>), None),
     Request(None, GeneralNames(<<DNS(<<"">>)>>), None),
     Request(None, GeneralNames(<<DNS(Www)>>), Some(<<"Acme">>)),
     Request(Some(<<"">>), GeneralNames(<<DNS(Www)>>), None),
     Request(Some(Long64), GeneralNames(<<IP(<<"::1">>)>>), Some(<<"Acme">>)),
     Request(Some(Long63),
             LegacyList(<<<<"b~ucher", "example", "com">>, <<"::1">>>>),
             None)}

\* Entries a caller builds itself.
WildEntry ==
    [cert |-> WildCert, privatekey |-> "site_key", chain_file |-> None,
     chain_certs |-> <<>>]
BlankEntry ==
    [cert |-> BlankCert, privatekey |-> "site_key", chain_file |-> None,
     chain_certs |-> <<>>]

\* Entries a caller can pass: its own, and the one the store last gave it.
HeldEntries ==
    {WildEntry, BlankEntry}
    \cup (IF last.entry /= None THEN {last.entry[1]} ELSE {})

NameLists == {<<>>, <<<<"*">>>>}
FileSpecs == {<<"alt", "example", "com">>}

CallGetCert ==
    \E r \in Requests :
        /\ WouldHit(r.cn, r.sans) \/ issued < MaxIssued
        /\ GetCert(r.cn, r.sans, r.org)
        /\ UNCHANGED nextHost

CallAddCert ==
    \E entry \in HeldEntries, names \in NameLists :
        /\ Len(calls) < MaxCustomOps
        /\ AddCertCall(entry, names)
        /\ UNCHANGED nextHost

CallAddCertFile ==
    \E spec \in FileSpecs, file \in PemFiles, passphrase \in Passphrases :
        /\ Len(calls) < MaxCustomOps
        /\ AddCertFileCall(spec, file, passphrase)
        /\ UNCHANGED nextHost

CallExpire ==
    /\ Len(calls) < MaxCustomOps
    /\ last.entry /= None
    /\ ExpireCall(last.entry[1])
    /\ UNCHANGED nextHost

\* The caller repeats its last get_cert call.
CallGetCertAgain ==
    /\ last.op = "get_cert"
    /\ WouldHit(last.cn, GeneralNames(last.sans)) \/ issued <= MaxIssued
    /\ GetCert(last.cn, GeneralNames(last.sans), last.org)
    /\ UNCHANGED nextHost

Next ==
    \/ CallGetCert
    \/ CallGetCertAgain
    \/ CallAddCert
    \/ CallAddCertFile
    \/ CallExpire

Spec == Init /\ [][Next]_vars

---------------------------------------------------------------------------
(* The capacity universe: a client asks for host0.test, host1.test, ... in *)
(* turn, until the queue has overflowed MaxExtra times, and may ask again  *)
(* for the hosts of Probes; the operator's calls come when the queue is    *)
(* full.                                                                   *)

Host(i) == <<"host" \o ToString(i), "test">>
HostSans(i) == GeneralNames(<<DNS(Host(i))>>)
HostKey(i) == TupKey(Some(Host(i)), <<DNS(Host(i))>>)

\* Hosts asked for again: the first two and one queued later.
Probes == {0, 1, STORE_CAP \div 2}

CapNames == {<<<<"alias", "test">>>>}

CapFiles == {f \in PemFiles : f.path \in {"good.pem", "mismatch.pem"}}

\* When the operator's calls come.
InWindow == nextHost = STORE_CAP

CapGetNext ==
    /\ nextHost < STORE_CAP + MaxExtra
    /\ issued < STORE_CAP + MaxExtra
    /\ GetCert(Some(Host(nextHost)), HostSans(nextHost), None)
    /\ nextHost' = nextHost + 1

CapGetAgain ==
    \E i \in Probes :
        /\ i < nextHost
        /\ WouldHit(Some(Host(i)), HostSans(i)) \/ issued < STORE_CAP + MaxExtra
        /\ GetCert(Some(Host(i)), HostSans(i), None)
        /\ UNCHANGED nextHost

CapAddCert ==
    \E names \in CapNames :
        /\ InWindow
        /\ Len(calls) < MaxCustomOps
        /\ last.entry /= None
        /\ AddCertCall(last.entry[1], names)
        /\ UNCHANGED nextHost

CapAddCertFile ==
    \E spec \in FileSpecs, file \in CapFiles :
        /\ InWindow
        /\ Len(calls) < MaxCustomOps
        /\ AddCertFileCall(spec, file, None)
        /\ UNCHANGED nextHost

CapExpire ==
    /\ InWindow
    /\ Len(calls) < MaxCustomOps
    /\ last.entry /= None
    /\ ExpireCall(last.entry[1])
    /\ UNCHANGED nextHost

NextCap ==
    \/ CapGetNext
    \/ CapGetAgain
    \/ CapAddCert
    \/ CapAddCertFile
    \/ CapExpire

InitCap == Init /\ default_chain_file = None

SpecCap == InitCap /\ [][NextCap]_vars

---------------------------------------------------------------------------
(* Capacity and eviction.                                                  *)

\* The (cn, sans) pairs that have missed so far.
MissedKeys == {missLog[i].key : i \in 1..Len(missLog)}

\* The step queues an entry: a get_cert miss or a direct expire call.
QueueStep ==
    \/ last'.op = "get_cert" /\ last'.synthesized /\ issued' = issued + 1
    \/ last'.op = "expire" /\ Len(calls') = Len(calls) + 1

\* certs at the moment the step calls expire: a miss has just assigned the
\* (cn, sans) key.
CertsAtExpire ==
    IF last'.op = "get_cert"
    THEN Put(certs, TupKey(last'.cn, last'.sans), last'.entry[1])
    ELSE certs

\* C1: in every reachable state, whatever get_cert, add_cert, add_cert_file
\* and expire calls led to it, expire_queue holds at most STORE_CAP entries,
\* and once more than STORE_CAP distinct (cn, sans) pairs have missed it
\* holds exactly STORE_CAP.
C1_QueueBounded ==
    /\ Len(expire_queue) <= STORE_CAP
    /\ Cardinality(MissedKeys) > STORE_CAP => Len(expire_queue) = STORE_CAP

\* More than STORE_CAP distinct pairs have missed, with an operator call
\* among the calls, and the queue is full.
C1_Witness ==
    /\ Cardinality(MissedKeys) > STORE_CAP
    /\ Len(calls) > 0
    /\ Len(expire_queue) = STORE_CAP

\* get_cert asked again, in the current state, for the pair of the i-th miss.
AskAgain(i) ==
    GetCertResult(certs, expire_queue, default_chain_file, default_chain_certs,
                  missLog[i].key.cn, GeneralNames(missLog[i].key.sans), None,
                  issued)

\* Every step that queues an entry appends it at the tail and, if the queue
\* was full, removes the head and nothing else; no other step touches the
\* queue. A hit, in particular, never reorders it.
C2_FifoStep ==
    IF QueueStep
    THEN expire_queue' =
            IF Len(expire_queue) < STORE_CAP
            THEN Append(expire_queue, last'.entry[1])
            ELSE Append(Tail(expire_queue), last'.entry[1])
    ELSE expire_queue' = expire_queue

\* After N > STORE_CAP misses with distinct (cn, sans) and no other call
\* than get_cert, asking again for one of the N - STORE_CAP earliest pairs
\* misses and gives a new entry, asking again for a later pair gives the
\* entry its miss created.
C2_Repeat ==
    (/\ calls = <<>>
     /\ Cardinality(MissedKeys) = Len(missLog)
     /\ Len(missLog) > STORE_CAP)
    => \A i \in 1..Len(missLog) :
          IF i <= Len(missLog) - STORE_CAP
          THEN AskAgain(i).synthesized
               /\ AskAgain(i).entry.cert.fp /= missLog[i].fp
          ELSE ~AskAgain(i).synthesized
               /\ AskAgain(i).entry.cert.fp = missLog[i].fp

\* C2: eviction is strict FIFO by insertion time: the entry a miss evicts is
\* the head of expire_queue, the one queued earliest, however often it was
\* returned by hits; hence after N > STORE_CAP distinct misses the
\* N - STORE_CAP earliest pairs miss again and the later ones return their
\* original entry.
C2_Fifo == [][C2_FifoStep]_vars /\ []C2_Repeat

\* Only get_cert was called, more than STORE_CAP distinct pairs missed,
\* host0 was returned by a hit when the queue was full and is gone all the
\* same, and the last call was a hit on a pair queued later.
C2_Witness ==
    /\ calls = <<>>
    /\ Cardinality(MissedKeys) = Len(missLog)
    /\ Len(missLog) > STORE_CAP
    /\ HostKey(0) \notin DOMAIN certs
    /\ last.op = "get_cert" /\ ~last.synthesized
    /\ last.cn = Some(Host(STORE_CAP \div 2))

\* A step whose expire call finds the queue full evicts the head: afterwards
\* no key maps to an entry equal to it, every other key is kept.
C3_EvictStep ==
    (QueueStep /\ Len(expire_queue) = STORE_CAP)
    => /\ \A k \in DOMAIN certs' : ~EntryEq(certs'[k], Head(expire_queue))
       /\ \A k \in DOMAIN CertsAtExpire :
             ~EntryEq(CertsAtExpire[k], Head(expire_queue))
             => k \in DOMAIN certs' /\ certs'[k] = CertsAtExpire[k]

\* C3: when expire evicts an entry d, right afterwards no key of certs maps
\* to d (its (cn, sans) key and every alias add_cert gave it are gone), and
\* every key that mapped to another entry still maps to it.
C3_Cascade == [][C3_EvictStep]_vars

\* add_cert registered "alias.test" for a queued entry, that entry has been
\* evicted and the alias is gone, while other keys remain.
C3_Witness ==
    /\ \E i \in 1..Len(calls) : calls[i].op = "add_cert"
    /\ StrKey(<<"alias", "test">>) \notin DOMAIN certs
    /\ Len(missLog) > STORE_CAP
    /\ certs /= <<>>

---------------------------------------------------------------------------
(* Lookup.                                                                 *)

\* A get_cert call that directly follows a get_cert call with the same
\* (cn, sans).
C4_IdempotentStep ==
    (/\ last.op = "get_cert"
     /\ last'.op = "get_cert"
     /\ last'.cn = last.cn
     /\ last'.sans = last.sans)
    => /\ CertEq(last'.entry[1].cert, last.entry[1].cert)
       /\ certs' = certs
       /\ expire_queue' = expire_queue

\* C4: two back-to-back get_cert calls with the same (cn, sans) return the
\* same entry (equal fingerprint), and the second call changes neither
\* expire_queue nor certs.
C4_Idempotent == [][C4_IdempotentStep]_vars

\* A get_cert call made when one of its candidate keys is in certs.
C5_FirstPresentStep ==
    (/\ last'.op = "get_cert"
     /\ FirstPresent(PotentialKeys(last'.cn, last'.sans), certs) /= None)
    => /\ last'.entry[1] =
            certs[FirstPresent(PotentialKeys(last'.cn, last'.sans), certs)[1]]
       /\ ~last'.synthesized
       /\ issued' = issued
       /\ expire_queue' = expire_queue

\* C5: get_cert returns the entry stored under the first of its candidate
\* keys (asterisk forms of the common name, asterisk forms of each SAN, "*",
\* the (cn, sans) tuple) that is present in certs; whenever one is present,
\* whatever the key string, the stored entry is returned and no leaf is
\* synthesized or queued.
C5_FirstPresent == [][C5_FirstPresentStep]_vars

\* C6 as claimed: the SAN extension of the leaf any get_cert(cn, sans) call
\* returns holds exactly the normalized sans.
C6_SansExact ==
    last.op = "get_cert" => CertAltnames(last.entry[1].cert) = last.sans

\* C6: the SAN extension of a leaf the store synthesized for (cn, sans),
\* returned by the call that misses or later from the (cn, sans) key, holds
\* exactly the normalized sans; a hit on a registered string key returns the
\* registered entry, whatever its SANs.
C6_SansExactWhenSynthesized ==
    /\ (/\ last.op = "get_cert"
        /\ \/ last.synthesized
           \/ last.name /= None /\ last.name[1].tag = "tup")
       => CertAltnames(last.entry[1].cert) = last.sans
    /\ \A k \in DOMAIN certs :
          k.tag = "tup" => CertAltnames(certs[k].cert) = k.sans

\* A miss for legacy SANs (a non-ASCII DNS name and an IP literal) has given
\* a leaf with the converted names.
C6_Witness ==
    /\ last.op = "get_cert" /\ last.synthesized
    /\ last.sans = <<DNS(<<"xn--bcher-kva", "example", "com">>), IP(<<"::1">>)>>
    /\ CertAltnames(last.entry[1].cert) = last.sans

---------------------------------------------------------------------------
(* Chains and add_cert_file.                                               *)

\* The entries the store holds or has just returned.
StoreEntries ==
    {certs[k] : k \in DOMAIN certs}
    \cup {expire_queue[i] : i \in 1..Len(expire_queue)}
    \cup {last.entry[i] : i \in 1..Len(last.entry)}

ChainHasLeaf(entry) ==
    \E i \in 1..Len(entry.chain_certs) : CertEq(entry.chain_certs[i], entry.cert)

\* C7 as claimed: no entry's chain includes the entry's own leaf, be it
\* created by add_cert_file or synthesized by get_cert.
C7_ChainExcludesLeaf == \A entry \in StoreEntries : ~ChainHasLeaf(entry)

\* C7: the chain of an entry get_cert synthesized is the store's default
\* chain and never includes the entry's own leaf; the chain of an entry
\* add_cert_file created starts with the leaf: it is every certificate of
\* the file or, on the chain-parse fallback, the leaf alone.
C7_GeneratedChainExcludesLeaf ==
    /\ \A entry \in StoreEntries :
          entry.cert.fp.src = "gen"
          => /\ ~ChainHasLeaf(entry)
             /\ entry.chain_certs = default_chain_certs
    /\ (last.op = "add_cert_file" /\ last.entry /= None)
       => CertEq(last.entry[1].chain_certs[1], last.entry[1].cert)

\* add_cert_file has registered a file and get_cert has then synthesized a
\* leaf, served with the two certificates of the CA file.
C7_Witness ==
    /\ \E i \in 1..Len(calls) :
          calls[i].op = "add_cert_file" /\ calls[i].err = ""
    /\ last.op = "get_cert" /\ last.synthesized
    /\ Len(last.entry[1].chain_certs) = 2

\* What every request of the universe would get from a store.
Answers(c, q) ==
    [r \in Requests |->
        GetCertResult(c, q, default_chain_file, default_chain_certs,
                      r.cn, r.sans, r.org, issued)]

\* An add_cert_file call that ends in the key-mismatch error.
C8_MismatchStep ==
    (/\ last'.op = "add_cert_file"
     /\ Len(calls') = Len(calls) + 1
     /\ last'.err = "KeyMismatch")
    => /\ certs' = certs
       /\ expire_queue' = expire_queue
       /\ issued' = issued
       /\ Answers(certs', expire_queue') = Answers(certs, expire_queue)

\* C8: an add_cert_file call that fails on mismatched keys (the file's key,
\* or the default key when the file has none, does not match the cert)
\* reports the error and leaves certs and expire_queue as they were, so
\* every later get_cert call gives what it would have given without it.
C8_MismatchLeavesStore == [][C8_MismatchStep]_vars

\* add_cert_file has just failed with KeyMismatch on a store that holds a
\* generated leaf.
C8_Witness ==
    /\ last.op = "add_cert_file" /\ last.err = "KeyMismatch"
    /\ certs /= <<>>
    /\ Len(expire_queue) > 0

---------------------------------------------------------------------------
(* The leaf builder.                                                       *)

\* C9: in every leaf the builder makes, whatever the common name (absent,
\* empty, short, 64 or more characters) and the organization (absent or
\* present), the SAN extension is critical iff the Subject is empty.
C9_CriticalIffEmptySubject ==
    (last.op = "get_cert" /\ last.synthesized)
    => (last.entry[1].cert.san_critical <=> last.entry[1].cert.subject = <<>>)

\* C10: the Subject has a CN attribute only if the common name given is
\* non-empty and shorter than 64; otherwise the Subject is empty or holds
\* only the organization.
C10_CnOnlyIfValid ==
    (last.op = "get_cert" /\ last.synthesized)
    => IF OptStrTruthy(last.cn) /\ StrLen(last.cn[1]) < CN_LIMIT
       THEN TRUE
       ELSE /\ CertCn(last.entry[1].cert) = None
            /\ \A i \in 1..Len(last.entry[1].cert.subject) :
                  last.entry[1].cert.subject[i].oid = "O"

---------------------------------------------------------------------------
(* CertStore.from_store, create_store and umask_secret.                    *)
(*                                                                         *)
(* A file mode and a umask are the integer of their nine permission bits.  *)
(* A file of the store directory is known by the part of its name after    *)
(* the basename: "-ca.pem" is "ca.pem".                                    *)

\* from_store calls in one run.
MaxRounds == 2

\* umask_secret: 0o77
SECRET_BITS == 63
\* The mode open() asks for when write_bytes creates a file: 0o666.
FILE_MODE == 438

\* a | b
RECURSIVE BitOr(_, _)
BitOr(a, b) ==
    IF a = 0 THEN b
    ELSE IF b = 0 THEN a
    ELSE (IF a % 2 = 1 \/ b % 2 = 1 THEN 1 ELSE 0)
         + 2 * BitOr(a \div 2, b \div 2)

\* a & ~b
RECURSIVE BitAndNot(_, _)
BitAndNot(a, b) ==
    IF a = 0 THEN 0
    ELSE (IF a % 2 = 1 /\ b % 2 = 0 THEN 1 ELSE 0)
         + 2 * BitAndNot(a \div 2, b \div 2)

\* The umasks a process starts with: 0o000, 0o002, 0o022, 0o027, 0o077.
Umasks == {0, 2, 18, 23, 63}

\* Path.write_bytes under umask um: a file that does not exist is created
\* with mode 0o666 & ~um, one that exists keeps its mode.
WriteFile(fs, name, um) ==
    Put(fs, name,
        [mode |-> IF name \in DOMAIN fs
                  THEN fs[name].mode
                  ELSE BitAndNot(FILE_MODE, um),
         under |-> um])

\* The files create_store writes after the with block.
PublicFiles == <<"ca-cert.pem", "ca-cert.cer", "ca-cert.p12", "dhparam.pem">>

RECURSIVE WriteFiles(_, _, _)
WriteFiles(fs, names, um) ==
    IF names = <<>> THEN fs
    ELSE WriteFiles(WriteFile(fs, Head(names), um), Tail(names), um)

\* umask_secret without try/finally: the umask is put back only when the
\* body completes.
RestoreUnlessRaised(original_umask, exc, current) ==
    IF exc = "" THEN original_umask ELSE current

\* umask_secret, the finally clause: os.umask(original_umask), whatever
\* ended the body.
RestoreUmask(original_umask, exc, current) == original_umask

\* from_store: ca_file does not exist, create_store is called and reaches
\* `with CertStore.umask_secret():`.
FromStoreCreates ==
    /\ ctx.pc = "idle"
    /\ ctx.rounds < MaxRounds
    /\ "ca.pem" \notin DOMAIN files
    /\ ctx' = [CtxIdle(ctx.rounds + 1) EXCEPT !.pc = "save",
                                               !.was = Some(umask)]
    /\ UNCHANGED <<umask, files>>
    /\ UNCHANGED <<storeVars, concVars>>

\* from_store: ca_file exists, the store is loaded with from_files.
FromStoreLoads ==
    /\ ctx.pc = "idle"
    /\ ctx.rounds < MaxRounds
    /\ "ca.pem" \in DOMAIN files
    /\ ctx' = CtxIdle(ctx.rounds + 1)
    /\ UNCHANGED <<umask, files>>
    /\ UNCHANGED <<storeVars, concVars>>

\* The user removes the store directory.
RemoveStore ==
    /\ ctx.pc = "idle"
    /\ ctx.rounds < MaxRounds
    /\ files /= <<>>
    /\ files' = <<>>
    /\ UNCHANGED <<umask, ctx>>
    /\ UNCHANGED <<storeVars, concVars>>

\* original_umask = os.umask(0)
UmaskSecretSave ==
    /\ ctx.pc = "save"
    /\ ctx' = [ctx EXCEPT !.pc = "set", !.original_umask = Some(umask)]
    /\ umask' = 0
    /\ UNCHANGED files
    /\ UNCHANGED <<storeVars, concVars>>

\* os.umask(original_umask | 0o77), then try: yield
UmaskSecretSet ==
    /\ ctx.pc = "set"
    /\ umask' = BitOr(ctx.original_umask[1], SECRET_BITS)
    /\ ctx' = [ctx EXCEPT !.pc = "pem"]
    /\ UNCHANGED files
    /\ UNCHANGED <<storeVars, concVars>>

\* KeyboardInterrupt while umask_secret is being entered, before the try.
AcquireInterrupted ==
    /\ ctx.pc \in {"save", "set"}
    /\ ctx' = [ctx EXCEPT !.pc = "idle", !.exc = "KeyboardInterrupt",
                          !.exit = "not_entered"]
    /\ UNCHANGED <<umask, files>>
    /\ UNCHANGED <<storeVars, concVars>>

\* The body: (path / f"{basename}-ca.pem").write_bytes(...)
WriteCaPem ==
    /\ ctx.pc = "pem"
    /\ files' = WriteFile(files, "ca.pem", umask)
    /\ ctx' = [ctx EXCEPT !.pc = "p12"]
    /\ UNCHANGED umask
    /\ UNCHANGED <<storeVars, concVars>>

\* The body: (path / f"{basename}-ca.p12").write_bytes(...), the body's end.
WriteCaP12 ==
    /\ ctx.pc = "p12"
    /\ files' = WriteFile(files, "ca.p12", umask)
    /\ ctx' = [ctx EXCEPT !.pc = "finally"]
    /\ UNCHANGED umask
    /\ UNCHANGED <<storeVars, concVars>>

\* The body raises: write_bytes fails with OSError, on open or after it has
\* created the file.
BodyRaises ==
    /\ ctx.pc \in {"pem", "p12"}
    /\ \E created \in BOOLEAN :
          files' = IF created
                   THEN WriteFile(files, "ca." \o ctx.pc, umask)
                   ELSE files
    /\ ctx' = [ctx EXCEPT !.pc = "finally", !.exc = "OSError"]
    /\ UNCHANGED umask
    /\ UNCHANGED <<storeVars, concVars>>

\* The body is interrupted: KeyboardInterrupt before or between the writes.
BodyInterrupted ==
    /\ ctx.pc \in {"pem", "p12"}
    /\ ctx' = [ctx EXCEPT !.pc = "finally", !.exc = "KeyboardInterrupt"]
    /\ UNCHANGED <<umask, files>>
    /\ UNCHANGED <<storeVars, concVars>>

\* finally: os.umask(original_umask); an exception of the body goes on to
\* the caller of from_store.
UmaskSecretFinally ==
    /\ ctx.pc = "finally"
    /\ umask' = RestoreUmask(ctx.original_umask[1], ctx.exc, umask)
    /\ ctx' = [ctx EXCEPT
                 !.pc = IF ctx.exc = "" THEN "public" ELSE "idle",
                 !.exit = IF ctx.exc = "" THEN "completed"
                          ELSE IF ctx.exc = "OSError" THEN "raised"
                          ELSE "interrupted"]
    /\ UNCHANGED files
    /\ UNCHANGED <<storeVars, concVars>>

\* create_store after the with block: the certificate files and the DH
\* parameters.
WritePublic ==
    /\ ctx.pc = "public"
    /\ files' = WriteFiles(files, PublicFiles, umask)
    /\ ctx' = [ctx EXCEPT !.pc = "idle"]
    /\ UNCHANGED umask
    /\ UNCHANGED <<storeVars, concVars>>

NextUmask ==
    \/ FromStoreCreates
    \/ FromStoreLoads
    \/ RemoveStore
    \/ UmaskSecretSave
    \/ UmaskSecretSet
    \/ AcquireInterrupted
    \/ WriteCaPem
    \/ WriteCaP12
    \/ BodyRaises
    \/ BodyInterrupted
    \/ UmaskSecretFinally
    \/ WritePublic

InitUmask ==
    /\ StoreInit
    /\ default_chain_file = None
    /\ \E u \in Umasks : ProcInit(u)

SpecUmask == InitUmask /\ [][NextUmask]_vars

\* The body of the with block is running.
InBody == ctx.pc \in {"pem", "p12"}

\* The with block was entered and has been left.
BodyLeft == ctx.exit \in {"completed", "raised", "interrupted"}

\* C11: umask_secret holds the process umask at original | 0o77 for the
\* whole time the body runs, so -ca.pem and -ca.p12 are written under it
\* (and created without any group or other permission), and the umask is
\* back at its original value once the body has been left, be it completed,
\* by an exception or by an interrupt.
C11_UmaskScoped ==
    /\ InBody => umask = BitOr(ctx.was[1], SECRET_BITS)
    /\ \A f \in {"ca.pem", "ca.p12"} \cap DOMAIN files :
          /\ BitAndNot(SECRET_BITS, files[f].under) = 0
          /\ BitAndNot(files[f].mode, 448) = 0
    /\ BodyLeft => umask = ctx.was[1]

\* A process with umask 0o022 was interrupted in the body after it had
\* written -ca.pem with mode 0o600, and has its umask back.
C11_Witness ==
    /\ ctx.exit = "interrupted"
    /\ "ca.pem" \in DOMAIN files
    /\ files["ca.pem"].mode = 384
    /\ "ca.p12" \notin DOMAIN files
    /\ ctx.was = Some(18)
    /\ umask = 18

---------------------------------------------------------------------------
(* A store shared by request handlers that run get_cert at the same time.  *)
(* The code takes no lock: a handler's get_cert call is the sequence of    *)
(* its statements, and the statements of two calls interleave. A           *)
(* statement is taken as one step.                                         *)

\* get_cert calls the handlers begin in one run.
MaxConcCalls == 2

\* The entry get_cert synthesizes for host(i).test as the i-th leaf of a
\* store made from a CA file that holds the CA alone.
HostEntry(i) ==
    NewEntry(Some(Host(i)), FixLegacySans(HostSans(i)), None, default_ca,
             None, <<default_ca>>, i)

\* The store after get_cert misses for host0.test .. host(n-1).test in
\* turn, n <= STORE_CAP: one tuple key and one queued entry for each.
Prefill(n) ==
    [certs |-> [k \in {HostKey(i) : i \in 0..(n - 1)} |->
                   HostEntry(CHOOSE i \in 0..(n - 1) : HostKey(i) = k)],
     expire_queue |-> [i \in 1..n |-> HostEntry(i - 1)]]

\* Prefill gives the store the calls give.
PrefillIsStore ==
    (calls = <<>> /\ nextHost <= STORE_CAP)
    => /\ certs = Prefill(nextHost).certs
       /\ expire_queue = Prefill(nextHost).expire_queue

\* What the handlers ask for: the host queued first and two new hosts.
ConcRequests ==
    {Request(Some(Host(i)), HostSans(i), None) :
        i \in {0, STORE_CAP, STORE_CAP + 1}}

\* get_cert up to `name = next(filter(...), None)` and `if name:`.
ConcLookup ==
    \E h \in Handlers, r \in ConcRequests :
        LET sans == FixLegacySans(r.sans)
            name == FirstPresent(PotentialKeys(r.cn, sans), certs)
        IN /\ handlers[h].pc = "idle"
           /\ Len(log) < MaxConcCalls
           /\ handlers' = [handlers EXCEPT ![h] =
                  [HandlerIdle EXCEPT
                      !.pc = IF NameFound(name) THEN "hit" ELSE "miss",
                      !.req = Some(Request(r.cn, sans, r.org)),
                      !.name = name]]
           /\ log' = Append(log, r)
           /\ UNCHANGED <<storeVars, umask, ctx, files>>

\* entry = self.certs[name]; return entry
ConcReturnHit ==
    \E h \in Handlers :
        /\ handlers[h].pc = "hit"
        /\ handlers' = [handlers EXCEPT ![h] =
               IF handlers[h].name[1] \in DOMAIN certs
               THEN [@ EXCEPT !.pc = "idle",
                              !.ret = Some(certs[handlers[h].name[1]])]
               ELSE [@ EXCEPT !.pc = "idle", !.err = "KeyError"]]
        /\ UNCHANGED <<storeVars, umask, ctx, files, log>>

\* entry = CertStoreEntry(cert=dummy_cert(...), ...)
ConcSign ==
    \E h \in Handlers :
        LET r == handlers[h].req[1] IN
        /\ handlers[h].pc = "miss"
        /\ handlers' = [handlers EXCEPT ![h] =
               [@ EXCEPT !.pc = "signed",
                         !.entry = Some(NewEntry(r.cn, r.sans, r.org,
                                         default_ca, default_chain_file,
                                         default_chain_certs, issued))]]
        /\ issued' = issued + 1
        /\ UNCHANGED <<certs, expire_queue, default_chain_file,
                       default_chain_certs, last, missLog, calls, nextHost,
                       umask, ctx, files, log>>

\* self.certs[(commonname, sans)] = entry
ConcAssign ==
    \E h \in Handlers :
        LET r == handlers[h].req[1] IN
        /\ handlers[h].pc = "signed"
        /\ certs' = Put(certs, TupKey(r.cn, r.sans), handlers[h].entry[1])
        /\ handlers' = [handlers EXCEPT ![h] = [@ EXCEPT !.pc = "assigned"]]
        /\ UNCHANGED <<expire_queue, default_chain_file, default_chain_certs,
                       issued, last, missLog, calls, nextHost,
                       umask, ctx, files, log>>

\* expire: self.expire_queue.append(entry)
ConcAppend ==
    \E h \in Handlers :
        /\ handlers[h].pc = "assigned"
        /\ expire_queue' = Append(expire_queue, handlers[h].entry[1])
        /\ handlers' = [handlers EXCEPT ![h] = [@ EXCEPT !.pc = "appended"]]
        /\ UNCHANGED <<certs, default_chain_file, default_chain_certs,
                       issued, last, missLog, calls, nextHost,
                       umask, ctx, files, log>>

\* expire: if len(self.expire_queue) > self.STORE_CAP:
\*             d = self.expire_queue.pop(0)
\* and, when the queue is not over the cap, the return of get_cert.
ConcPop ==
    \E h \in Handlers :
        /\ handlers[h].pc = "appended"
        /\ IF Len(expire_queue) > STORE_CAP
           THEN /\ expire_queue' = Tail(expire_queue)
                /\ handlers' = [handlers EXCEPT ![h] =
                       [@ EXCEPT !.pc = "popped",
                                 !.d = Some(Head(expire_queue))]]
           ELSE /\ expire_queue' = expire_queue
                /\ handlers' = [handlers EXCEPT ![h] =
                       [@ EXCEPT !.pc = "idle", !.ret = handlers[h].entry]]
        /\ UNCHANGED <<certs, default_chain_file, default_chain_certs,
                       issued, last, missLog, calls, nextHost,
                       umask, ctx, files, log>>

\* expire: self.certs = {k: v for k, v in self.certs.items() if v != d},
\* then the return of get_cert.
ConcRebuild ==
    \E h \in Handlers :
        /\ handlers[h].pc = "popped"
        /\ certs' = [k \in {x \in DOMAIN certs :
                              ~EntryEq(certs[x], handlers[h].d[1])}
                     |-> certs[k]]
        /\ handlers' = [handlers EXCEPT ![h] =
               [@ EXCEPT !.pc = "idle", !.ret = handlers[h].entry]]
        /\ UNCHANGED <<expire_queue, default_chain_file, default_chain_certs,
                       issued, last, missLog, calls, nextHost,
                       umask, ctx, files, log>>

NextConc ==
    \/ ConcLookup
    \/ ConcReturnHit
    \/ ConcSign
    \/ ConcAssign
    \/ ConcAppend
    \/ ConcPop
    \/ ConcRebuild

\* A store whose queue is one short of full, or full, when the handlers
\* start.
InitConc ==
    /\ \E n \in {STORE_CAP - 1, STORE_CAP} :
          /\ nextHost = n
          /\ issued = n
          /\ certs = Prefill(n).certs
          /\ expire_queue = Prefill(n).expire_queue
    /\ default_chain_file = None
    /\ default_chain_certs = <<default_ca>>
    /\ last = Last("init", None, <<>>, None, <<>>, None, None, FALSE, "")
    /\ missLog = <<>>
    /\ calls = <<>>
    /\ ProcInit(18)

SpecConc == InitConc /\ [][NextConc]_vars

\* The calls of l made one after another, in the order p, on store st.
RECURSIVE RunInOrder(_, _, _, _)
RunInOrder(st, l, p, i) ==
    IF i > Len(l) THEN st
    ELSE LET r == GetCertResult(st.certs, st.expire_queue, None,
                                <<default_ca>>, l[p[i]].cn, l[p[i]].sans,
                                l[p[i]].org, st.n)
         IN RunInOrder([certs |-> r.certs, expire_queue |-> r.expire_queue,
                        n |-> IF r.synthesized THEN st.n + 1 ELSE st.n],
                       l, p, i + 1)

Orders(n) == {p \in [1..n -> 1..n] : \A i, j \in 1..n : p[i] = p[j] => i = j}

\* A store up to the fingerprints of its leaves: what each queued entry was
\* made for, and where in the queue the entry of each key is.
Shape(c, q) ==
    [queue |-> [i \in 1..Len(q) |->
                   TupKey(CertCn(q[i].cert), CertAltnames(q[i].cert))],
     at |-> [k \in DOMAIN c |-> {i \in 1..Len(q) : EntryEq(q[i], c[k])}]]

\* The stores the calls of log can leave when made one after another.
SerialShapes ==
    LET st0 == [certs |-> Prefill(nextHost).certs,
                expire_queue |-> Prefill(nextHost).expire_queue,
                n |-> nextHost]
    IN {Shape(RunInOrder(st0, log, p, 1).certs,
              RunInOrder(st0, log, p, 1).expire_queue) :
           p \in Orders(Len(log))}

Quiescent == \A h \in Handlers : handlers[h].pc = "idle"

\* C12: the get_cert calls of concurrent handlers on a shared store are
\* serialized: once the calls have returned, the store is one that the same
\* calls leave when made one after another in some order, no call has
\* failed, and two concurrent misses for the same (cn, sans) never both
\* queue an entry.
C12_Serialized ==
    /\ Quiescent => Shape(certs, expire_queue) \in SerialShapes
    /\ \A h \in Handlers : handlers[h].err = ""
    /\ \A i, j \in 1..Len(expire_queue) :
          Shape(certs, expire_queue).queue[i] = Shape(certs, expire_queue).queue[j]
          => i = j

---------------------------------------------------------------------------
(* Generated keys and the queue.                                           *)

\* The (cn, sans) keys of certs.
TupleKeys == {k \in DOMAIN certs : k.tag = "tup"}

\* Only get_cert and add_cert have been called.
OnlyGetAndAdd == \A i \in 1..Len(calls) : calls[i].op = "add_cert"

\* C13: after any sequence of get_cert and add_cert calls, the (cn, sans)
\* keys of certs and the entries of expire_queue correspond one to one: each
\* queued entry is the value of exactly one tuple key, each tuple key maps
\* to a queued entry, no entry is queued twice, and so certs holds at most
\* STORE_CAP generated keys.
C13_KeysMatchQueue ==
    OnlyGetAndAdd
    => /\ \A i \in 1..Len(expire_queue) :
             Cardinality({k \in TupleKeys :
                             EntryEq(certs[k], expire_queue[i])}) = 1
       /\ \A k \in TupleKeys :
             \E i \in 1..Len(expire_queue) : EntryEq(expire_queue[i], certs[k])
       /\ \A i, j \in 1..Len(expire_queue) :
             EntryEq(expire_queue[i], expire_queue[j]) => i = j
       /\ Cardinality(TupleKeys) <= STORE_CAP

=============================================================================
